---- MODULE Spec2Model ----
(***************************************************************************)
(* Sentence-level annotation pipeline of the chromatography text scanner:  *)
(* vocabulary tagging, token-pattern matching, the table heuristic,        *)
(* context windows and their merge, classification and highlighting.       *)
(* Text is a sequence of one-character strings.                            *)
(***************************************************************************)
EXTENDS Integers, Sequences, FiniteSets, TLC

\* ------------------------------------------------------------ characters
UpperChars == <<"A","B","C","D","E","F","G","H","I","J","K","L","M",
                "N","O","P","Q","R","S","T","U","V","W","X","Y","Z">>

LowerChars == <<"a","b","c","d","e","f","g","h","i","j","k","l","m",
                "n","o","p","q","r","s","t","u","v","w","x","y","z">>

Digits == {"0","1","2","3","4","5","6","7","8","9"}

Whitespace == {" ", "\t", "\n"}

Range(f) == {f[k] : k \in DOMAIN f}

\* str.lower() on one character
LowerChar(c) ==
    IF \E k \in 1..26 : UpperChars[k] = c
    THEN LowerChars[CHOOSE k \in 1..26 : UpperChars[k] = c]
    ELSE c

\* str.lower()
lower(t) == [k \in 1..Len(t) |-> LowerChar(t[k])]

\* str.strip(): leading and trailing whitespace removed
strip(t) ==
    LET ns == {k \in 1..Len(t) : t[k] \notin Whitespace}
    IN  IF ns = {} THEN <<>>
        ELSE SubSeq(t, CHOOSE a \in ns : \A b \in ns : a <= b,
                       CHOOSE a \in ns : \A b \in ns : a >= b)

\* w in t (substring containment)
Contains(t, w) ==
    \E k \in 1..(Len(t) - Len(w) + 1) : SubSeq(t, k, k + Len(w) - 1) = w

\* a regex word character (\w)
IsWordChar(c) ==
    c \in Range(UpperChars) \cup Range(LowerChars) \cup Digits \cup {"_"}

\* ------------------------------------------------------------ constants
CONTEXT == 2

HL_S == <<"[", "[">>

HL_E == <<"]", "]">>

VOCAB_STATIONARY ==
    { <<"p","o","r","e"," ","s","i","z","e">>,
      <<"p","o","r","e"," ","d","i","a","m","e","t","e","r">>,
      <<"p","o","r","o","s","i","t","y">>,
      <<"m","e","s","o","p","o","r","o","u","s">>,
      <<"m","i","c","r","o","p","o","r","o","u","s">>,
      <<"m","a","c","r","o","p","o","r","o","u","s">>,
      <<"p","a","r","t","i","c","l","e"," ","s","i","z","e">>,
      <<"b","e","a","d"," ","s","i","z","e">>,
      <<"c","o","l","u","m","n"," ","d","i","m","e","n","s","i","o","n","s">>,
      <<"c","o","l","u","m","n"," ","l","e","n","g","t","h">>,
      <<"i","n","n","e","r"," ","d","i","a","m","e","t","e","r">>,
      <<"s","t","a","t","i","o","n","a","r","y"," ","p","h","a","s","e">>,
      <<"p","a","c","k","i","n","g"," ","m","a","t","e","r","i","a","l">>,
      <<"r","e","v","e","r","s","e"," ","p","h","a","s","e">>,
      <<"n","o","r","m","a","l"," ","p","h","a","s","e">>,
      <<"s","e","c">>,
      <<"g","p","c">>,
      <<"h","i","l","i","c">> }

VOCAB_CRITICAL ==
    { <<"c","r","i","t","i","c","a","l">>,
      <<"a","c","c","e","p","t","a","b","l","e">>,
      <<"a","l","l","o","w","a","b","l","e">>,
      <<"s","p","e","c","i","f","i","e","d">>,
      <<"r","e","c","o","m","m","e","n","d","e","d">>,
      <<"l","i","m","i","t">>,
      <<"l","i","m","i","t","s">>,
      <<"r","a","n","g","e">>,
      <<"m","a","x","i","m","u","m">>,
      <<"m","i","n","i","m","u","m">>,
      <<"u","p","p","e","r">>,
      <<"l","o","w","e","r">> }

VOCAB_SAMPLE ==
    { <<"m","e","a","s","u","r","e","d">>,
      <<"o","b","s","e","r","v","e","d">>,
      <<"e","v","a","l","u","a","t","e","d">>,
      <<"o","b","t","a","i","n","e","d">>,
      <<"r","a","n","g","e","d">>,
      <<"v","a","r","i","e","d">>,
      <<"e","x","p","e","r","i","m","e","n","t","a","l">>,
      <<"s","a","m","p","l","e","s">> }

VOCAB_SOLVENT ==
    { <<"w","a","t","e","r">>,
      <<"m","e","t","h","a","n","o","l">>,
      <<"e","t","h","a","n","o","l">>,
      <<"a","c","e","t","o","n","i","t","r","i","l","e">>,
      <<"t","h","f">>,
      <<"d","m","f">>,
      <<"d","m","s","o">>,
      <<"b","u","f","f","e","r">>,
      <<"m","o","b","i","l","e"," ","p","h","a","s","e">>,
      <<"e","l","u","e","n","t">>,
      <<"s","o","l","v","e","n","t">> }

\* VOCAB.items(): the categories in dictionary order
VocabNames == <<"STATIONARY", "CRITICAL", "SAMPLE", "SOLVENT">>

VOCAB(name) ==
    CASE name = "STATIONARY" -> VOCAB_STATIONARY
      [] name = "CRITICAL"   -> VOCAB_CRITICAL
      [] name = "SAMPLE"     -> VOCAB_SAMPLE
      [] name = "SOLVENT"    -> VOCAB_SOLVENT

ALL_KEYWORDS == UNION {VOCAB(VocabNames[k]) : k \in 1..Len(VocabNames)}

PatternNames == {"MEASUREMENT", "NUMERIC_RANGE", "SOLVENT_RATIO"}

AllTags == Range(VocabNames) \cup PatternNames \cup {"TABLE"}

Labels ==
    { "CONFIRMED CRITICAL RANGES", "USED / SAMPLE RANGES", "SOLVENT COMPOSITION",
      "TABLE / NUMERIC DATA", "OTHER RELEVANT INFORMATION" }

\* ------------------------------------------------------------ tokens
\* The tokenizer of the language pipeline, for the text shapes of this model:
\* whitespace splitting, leading "(" and trailing "," "." ")" ";" split off,
\* and an operator between two numbers split out ("50-100" is 50, -, 100).
EnDash == "u2013"

PrefixPunct == {"(", "["}

SuffixPunct == {",", ".", ")", "]", ";", "!", "?"}

InfixOps == {"-", "+", "*", "^"}

\* length of the maximal run of whitespace (or of non-whitespace) t starts with
RunLen(t) ==
    LET ws == t[1] \in Whitespace
    IN  CHOOSE n \in 1..Len(t) :
            /\ \A k \in 1..n : (t[k] \in Whitespace) = ws
            /\ n = Len(t) \/ (t[n + 1] \in Whitespace) # ws

RECURSIVE SplitInfix(_)
SplitInfix(c) ==
    LET at == {k \in 2..(Len(c) - 1) :
                 /\ c[k] \in InfixOps
                 /\ c[k - 1] \in Digits
                 /\ c[k + 1] \in Digits \cup {"-"}}
    IN  IF at = {} THEN <<c>>
        ELSE LET k == CHOOSE a \in at : \A b \in at : a <= b
             IN  <<SubSeq(c, 1, k - 1), <<c[k]>>>>
                     \o SplitInfix(SubSeq(c, k + 1, Len(c)))

RECURSIVE TokenizeChunk(_)
TokenizeChunk(c) ==
    IF Len(c) <= 1 THEN <<c>>
    ELSE IF c[1] \in PrefixPunct
         THEN <<<<c[1]>>>> \o TokenizeChunk(Tail(c))
    ELSE IF c[Len(c)] \in SuffixPunct
         THEN TokenizeChunk(SubSeq(c, 1, Len(c) - 1)) \o <<<<c[Len(c)]>>>>
    ELSE SplitInfix(c)

\* afterWord: the previous run was a word, whose token takes one following space
RECURSIVE Tokenize(_, _)
Tokenize(t, afterWord) ==
    IF t = <<>> THEN <<>>
    ELSE LET n    == RunLen(t)
             run  == SubSeq(t, 1, n)
             rest == SubSeq(t, n + 1, Len(t))
         IN  IF t[1] \notin Whitespace
             THEN TokenizeChunk(run) \o Tokenize(rest, TRUE)
             ELSE LET w == IF afterWord /\ run[1] = " " THEN Tail(run) ELSE run
                  IN  (IF w = <<>> THEN <<>> ELSE <<w>>) \o Tokenize(rest, FALSE)

tokens(t) == Tokenize(t, FALSE)

NumWords ==
    { <<"z","e","r","o">>, <<"o","n","e">>, <<"t","w","o">>, <<"t","h","r","e","e">>,
      <<"f","o","u","r">>, <<"f","i","v","e">>, <<"s","i","x">>, <<"s","e","v","e","n">>,
      <<"e","i","g","h","t">>, <<"n","i","n","e">>, <<"t","e","n">>,
      <<"e","l","e","v","e","n">>, <<"t","w","e","l","v","e">>,
      <<"t","w","e","n","t","y">>, <<"h","u","n","d","r","e","d">>,
      <<"t","h","o","u","s","a","n","d">>, <<"m","i","l","l","i","o","n">> }

IsDigitString(t) == t # <<>> /\ \A k \in 1..Len(t) : t[k] \in Digits

\* the LIKE_NUM token attribute
like_num(tok) ==
    LET t1 == IF tok # <<>> /\ tok[1] \in {"+", "-", "~"} THEN Tail(tok) ELSE tok
        t2 == SelectSeq(t1, LAMBDA c : c \notin {",", "."})
        sl == {k \in 1..Len(t2) : t2[k] = "/"}
    IN  \/ IsDigitString(t2)
        \/ /\ Cardinality(sl) = 1
           /\ LET k == CHOOSE a \in sl : TRUE
              IN  /\ IsDigitString(SubSeq(t2, 1, k - 1))
                  /\ IsDigitString(SubSeq(t2, k + 1, Len(t2)))
        \/ lower(t2) \in NumWords

\* ------------------------------------------------------------ matcher
LIKE_NUM == [attr |-> "LIKE_NUM", vals |-> {}]

LowerIn(S) == [attr |-> "LOWER", vals |-> S]

TextIn(S) == [attr |-> "TEXT", vals |-> S]

\* matcher.add(...): the token patterns of each rule
Patterns(id) ==
    CASE id = "MEASUREMENT" ->
           { <<LIKE_NUM, LowerIn({<<"n","m">>, <<"u","m">>, <<"m","m">>, <<"c","m">>})>> }
      [] id = "NUMERIC_RANGE" ->
           { <<LIKE_NUM, TextIn({<<"-">>, <<EnDash>>}), LIKE_NUM>>,
             <<LowerIn({<<"b","e","t","w","e","e","n">>}), LIKE_NUM,
               LowerIn({<<"a","n","d">>}), LIKE_NUM>> }
      [] id = "SOLVENT_RATIO" ->
           { <<LIKE_NUM, TextIn({<<":">>, <<"/">>}), LIKE_NUM>> }

TokenMatches(p, tok) ==
    CASE p.attr = "LIKE_NUM" -> like_num(tok)
      [] p.attr = "LOWER"    -> lower(tok) \in p.vals
      [] p.attr = "TEXT"     -> tok \in p.vals

\* matcher(s): the matches <<rule, start, end>> over the sentence's tokens
matcher(toks) ==
    { m \in PatternNames \X (1..Len(toks)) \X (1..(Len(toks) + 1)) :
        \E p \in Patterns(m[1]) :
            /\ m[3] = m[2] + Len(p)
            /\ m[3] <= Len(toks) + 1
            /\ \A j \in 1..Len(p) : TokenMatches(p[j], toks[m[2] + j - 1]) }

\* ------------------------------------------------------------ table, highlight, classify
\* the table test with the double space forgotten
looks_like_table_tab_only(t) ==
    /\ \E k \in 1..Len(t) : t[k] \in Digits
    /\ \E k \in 1..Len(t) : t[k] = "\t"

looks_like_table(t) ==
    /\ \E k \in 1..Len(t) : t[k] \in Digits
    /\ \/ \E k \in 1..(Len(t) - 1) : t[k] = " " /\ t[k + 1] = " "
       \/ \E k \in 1..Len(t) : t[k] = "\t"

\* sorted(ALL_KEYWORDS, key=len, reverse=True); keywords of equal length never
\* overlap in a text, so their relative order does not change the result
RECURSIVE SortByLenDesc(_)
SortByLenDesc(S) ==
    IF S = {} THEN <<>>
    ELSE LET k == CHOOSE a \in S : \A b \in S : Len(b) <= Len(a)
         IN  <<k>> \o SortByLenDesc(S \ {k})

SortedKeywords == SortByLenDesc(ALL_KEYWORDS)

\* \b at the gap before position p of t
WordBoundary(t, p) ==
    LET w(q) == q \in 1..Len(t) /\ IsWordChar(t[q])
    IN  w(p - 1) # w(p)

\* rf"\b{re.escape(k)}\b" with re.I matches at position p of t
MatchAt(k, t, p) ==
    /\ p + Len(k) - 1 <= Len(t)
    /\ lower(SubSeq(t, p, p + Len(k) - 1)) = k
    /\ WordBoundary(t, p)
    /\ WordBoundary(t, p + Len(k))

\* re.sub: the starts of the non-overlapping matches from position p on,
\* left to right
RECURSIVE MatchStarts(_, _, _)
MatchStarts(k, t, p) ==
    LET at == {q \in p..Len(t) : LowerChar(t[q]) = k[1] /\ MatchAt(k, t, q)}
    IN  IF at = {} THEN <<>>
        ELSE LET q == CHOOSE a \in at : \A b \in at : a <= b
             IN  <<q>> \o MatchStarts(k, t, q + Len(k))

\* wrapping that leaves a match already enclosed in markers as it is
RECURSIVE Wrap_unmarked(_, _, _, _)
Wrap_unmarked(k, t, p, qs) ==
    IF qs = <<>> THEN SubSeq(t, p, Len(t))
    ELSE LET q      == Head(qs)
             e      == q + Len(k)
             marked == /\ q > 2 /\ SubSeq(t, q - 2, q - 1) = HL_S
                       /\ e + 1 <= Len(t) /\ SubSeq(t, e, e + 1) = HL_E
         IN  SubSeq(t, p, q - 1)
                 \o (IF marked THEN <<>> ELSE HL_S)
                 \o SubSeq(t, q, e - 1)
                 \o (IF marked THEN <<>> ELSE HL_E)
                 \o Wrap_unmarked(k, t, e, Tail(qs))

\* the text from position p on with the matches starting at qs wrapped
RECURSIVE Wrap(_, _, _, _)
Wrap(k, t, p, qs) ==
    IF qs = <<>> THEN SubSeq(t, p, Len(t))
    ELSE LET q == Head(qs)
         IN  SubSeq(t, p, q - 1) \o HL_S \o SubSeq(t, q, q + Len(k) - 1) \o HL_E
                 \o Wrap(k, t, q + Len(k), Tail(qs))

ReSub(k, t) == Wrap(k, t, 1, MatchStarts(k, t, 1))

RECURSIVE HighlightFrom(_, _)
HighlightFrom(t, n) ==
    IF t = <<>> \/ n > Len(SortedKeywords) THEN t
    ELSE HighlightFrom(ReSub(SortedKeywords[n], t), n + 1)

highlight(t) == HighlightFrom(t, 1)

\* classify with the first two rules in the opposite order
classify_sample_first(tags) ==
    IF {"SAMPLE", "NUMERIC_RANGE"} \subseteq tags THEN "USED / SAMPLE RANGES"
    ELSE IF {"CRITICAL", "NUMERIC_RANGE"} \subseteq tags THEN "CONFIRMED CRITICAL RANGES"
    ELSE IF "SOLVENT" \in tags THEN "SOLVENT COMPOSITION"
    ELSE IF "TABLE" \in tags THEN "TABLE / NUMERIC DATA"
    ELSE "OTHER RELEVANT INFORMATION"

\* classify with the two pair rules satisfied by either tag of the pair
classify_either_tag(tags) ==
    IF {"CRITICAL", "NUMERIC_RANGE"} \cap tags # {} THEN "CONFIRMED CRITICAL RANGES"
    ELSE IF {"SAMPLE", "NUMERIC_RANGE"} \cap tags # {} THEN "USED / SAMPLE RANGES"
    ELSE IF "SOLVENT" \in tags THEN "SOLVENT COMPOSITION"
    ELSE IF "TABLE" \in tags THEN "TABLE / NUMERIC DATA"
    ELSE "OTHER RELEVANT INFORMATION"

classify(tags) ==
    IF {"CRITICAL", "NUMERIC_RANGE"} \subseteq tags THEN "CONFIRMED CRITICAL RANGES"
    ELSE IF {"SAMPLE", "NUMERIC_RANGE"} \subseteq tags THEN "USED / SAMPLE RANGES"
    ELSE IF "SOLVENT" \in tags THEN "SOLVENT COMPOSITION"
    ELSE IF "TABLE" \in tags THEN "TABLE / NUMERIC DATA"
    ELSE "OTHER RELEVANT INFORMATION"

\* ------------------------------------------------------------ sentences

\* 'The pore size was specified as 50-100 nm.'
SentPore ==
    <<"T","h","e"," ","p","o","r","e"," ","s","i","z","e"," ","w","a","s"," ","s","p","e","c","i","f","i","e","d"," ","a","s"," ","5","0","-","1","0","0"," ","n","m",".">>

\* 'Samples were measured, ranging from 10 to 20.'
SentSamples ==
    <<"S","a","m","p","l","e","s"," ","w","e","r","e"," ","m","e","a","s","u","r","e","d",","," ","r","a","n","g","i","n","g"," ","f","r","o","m"," ","1","0"," ","t","o"," ","2","0",".">>

\* 'We thank the team.'
SentPlain ==
    <<"W","e"," ","t","h","a","n","k"," ","t","h","e"," ","t","e","a","m",".">>

\* '\t5 apples'
SentLeadTab ==
    <<"\t","5"," ","a","p","p","l","e","s">>

\* 'Lot 5  '
SentTrail ==
    <<"L","o","t"," ","5"," "," ">>

\* '12\t34'
SentRow ==
    <<"1","2","\t","3","4">>

\* 'A second run.'
SentSecond ==
    <<"A"," ","s","e","c","o","n","d"," ","r","u","n",".">>

\* 'Use 1-2 or 3-4 mm.'
SentTwo ==
    <<"U","s","e"," ","1","-","2"," ","o","r"," ","3","-","4"," ","m","m",".">>

\* 'Water in THF.'
SentSolvent ==
    <<"W","a","t","e","r"," ","i","n"," ","T","H","F",".">>

\* 'Limits between 5 and 9.'
SentLimits ==
    <<"L","i","m","i","t","s"," ","b","e","t","w","e","e","n"," ","5"," ","a","n","d"," ","9",".">>

\* 'Lot  5'
SentDouble ==
    <<"L","o","t"," "," ","5">>

\* 'x\ty'
SentNoDigit ==
    <<"x","\t","y">>

Pool ==
    { SentPore,
      SentSamples,
      SentPlain,
      SentLeadTab,
      SentTrail,
      SentRow,
      SentSecond,
      SentTwo,
      SentSolvent,
      SentLimits,
      SentDouble,
      SentNoDigit }

\* ------------------------------------------------------------ bounds
MaxShort == 2

MaxLong == 7

\* sentences of the longer documents
LongPool == {SentPlain, SentRow, SentLimits, SentSamples}

\* scoring sentences 2, 5 and 11 of 13: windows [0,5), [3,8), [9,13)
ExampleDoc ==
    [k \in 1..13 |-> IF k = 3 THEN SentRow
                     ELSE IF k \in {6, 12} THEN SentLimits ELSE SentPlain]

\* scoring sentences 0, 5 and 11 of 12: windows [0,3), [3,8), [9,12), the
\* first two touching
TouchingDoc ==
    [k \in 1..12 |-> IF k = 1 THEN SentSamples
                     ELSE IF k = 6 THEN SentRow
                     ELSE IF k = 12 THEN SentLimits ELSE SentPlain]

\* a sentence span begins with whitespace only at the start of the text
Documents ==
    {<<>>, ExampleDoc, TouchingDoc}
        \cup {d \in UNION {[1..n -> Pool] : n \in 1..MaxShort} :
                \A k \in 2..Len(d) : d[k] # SentLeadTab}
        \cup UNION {[1..n -> LongPool] : n \in (MaxShort + 1)..MaxLong}

\* ------------------------------------------------------------ per-sentence scoring
\* for name, words in VOCAB.items(): from the n-th category on
RECURSIVE VocabScan(_, _, _)
VocabScan(tl, n, acc) ==
    IF n > Len(VocabNames) THEN acc
    ELSE LET name == VocabNames[n]
         IN  IF \E w \in VOCAB(name) : Contains(tl, w)
             THEN VocabScan(tl, n + 1,
                      [score |-> acc.score + (IF name # "SOLVENT" THEN 3 ELSE 2),
                       tags  |-> acc.tags \cup {name}])
             ELSE VocabScan(tl, n + 1, acc)

\* the pattern score counted once per rule instead of once per match
MatchScan_per_rule(s, acc) ==
    LET ms == matcher(tokens(s))
    IN  [score |-> acc.score + 4 * Cardinality({m[1] : m \in ms}),
         tags  |-> acc.tags \cup {m[1] : m \in ms}]

\* for mid,_,_ in matcher(s)
MatchScan(s, acc) ==
    LET ms == matcher(tokens(s))
    IN  [score |-> acc.score + 4 * Cardinality(ms),
         tags  |-> acc.tags \cup {m[1] : m \in ms}]

TableScan(t, acc) ==
    IF looks_like_table(t)
    THEN [score |-> acc.score + 3, tags |-> acc.tags \cup {"TABLE"}]
    ELSE acc

\* the body of the scoring loop for one sentence text: its score and tags
SentenceScore(s) ==
    LET t  == strip(s)
        tl == lower(s)
    IN  TableScan(t, MatchScan(s, VocabScan(tl, 1, [score |-> 0, tags |-> {}])))

\* every sentence becomes a Hit
KeepHit_always(sc) == TRUE

\* if score: the sentence becomes a Hit
KeepHit(sc) == sc.score # 0

\* highlight(sents[i].text.strip())
Highlighted(s) == highlight(strip(s))

\* The sentences are drawn from Pool: each one's score, tags and highlighted text
\* is evaluated once.
ScoreTable == [s \in Pool |-> SentenceScore(s)]

HighlightTable == [s \in Pool |-> Highlighted(s)]

Min(a, b) == IF a <= b THEN a ELSE b

Max(a, b) == IF a >= b THEN a ELSE b

\* mutant of HitOf: the window end is not cut at the end of the document
HitOf_unclamped(i, n, sc) ==
    <<Max(0, i - CONTEXT), i + CONTEXT + 1, sc.score, sc.tags, i>>

\* the Hit of scoring sentence i (0-based) of n: <<start, end, score, tags>>.
\* tags is a set object, made anew for each sentence: the fifth component names
\* the object (by the sentence that made it), the fourth holds its content.
\* Tuples that name the same object always hold the same content.
HitOf(i, n, sc) ==
    <<Max(0, i - CONTEXT), Min(n, i + CONTEXT + 1), sc.score, sc.tags, i>>

\* ------------------------------------------------------------ sorted(hits)
\* tuple comparison a < b: the first differing field decides; sets compare by
\* proper inclusion
HitLess(a, b) ==
    IF a[1] # b[1] THEN a[1] < b[1]
    ELSE IF a[2] # b[2] THEN a[2] < b[2]
    ELSE IF a[3] # b[3] THEN a[3] < b[3]
    ELSE a[4] # b[4] /\ a[4] \subseteq b[4]

Reverse(a) == [k \in 1..Len(a) |-> a[Len(a) + 1 - k]]

\* list.sort, count_run: the length of the leading run and whether it descends
RunDescends(a) == Len(a) >= 2 /\ HitLess(a[2], a[1])

CountRun(a) ==
    IF Len(a) < 2 THEN Len(a)
    ELSE CHOOSE n \in 2..Len(a) :
            /\ \A k \in 3..n : HitLess(a[k], a[k - 1]) = RunDescends(a)
            /\ n = Len(a) \/ HitLess(a[n + 1], a[n]) # RunDescends(a)

\* list.sort, binarysort: the slot of x in the sorted prefix a[l..r-1]
RECURSIVE BinarySlot(_, _, _, _)
BinarySlot(a, x, l, r) ==
    IF l >= r THEN l
    ELSE LET p == l + (r - l) \div 2
         IN  IF HitLess(x, a[p]) THEN BinarySlot(a, x, l, p)
             ELSE BinarySlot(a, x, p + 1, r)

RECURSIVE BinarySort(_, _)
BinarySort(a, start) ==
    IF start > Len(a) THEN a
    ELSE LET x == a[start]
             l == BinarySlot(a, x, 1, start)
         IN  BinarySort(SubSeq(a, 1, l - 1) \o <<x>> \o SubSeq(a, l, start - 1)
                            \o SubSeq(a, start + 1, Len(a)),
                        start + 1)

\* the sweep over the hits in the order given
sorted_as_given(a) == a

sorted(a) ==
    LET n   == CountRun(a)
        run == IF RunDescends(a) THEN Reverse(SubSeq(a, 1, n)) ELSE SubSeq(a, 1, n)
    IN  BinarySort(run \o SubSeq(a, n + 1, Len(a)), n + 1)

\* ------------------------------------------------------------ merge and output
\* the sweep with >= for >: a hit touching the last region starts a new one
MergeOne_touching_splits(m, h) ==
    IF m = <<>> \/ h[1] >= m[Len(m)][2]
    THEN Append(m, h)
    ELSE LET last == m[Len(m)]
         IN  [m EXCEPT ![Len(m)] =
                 <<last[1], Max(last[2], h[2]), Max(last[3], h[3]), last[4] \cup h[4], last[5]>>]

\* the sweep with the tags of the merged hit dropped
MergeOne_tags_kept(m, h) ==
    IF m = <<>> \/ h[1] > m[Len(m)][2]
    THEN Append(m, h)
    ELSE LET last == m[Len(m)]
         IN  [m EXCEPT ![Len(m)] =
                 <<last[1], Max(last[2], h[2]), Max(last[3], h[3]), last[4], last[5]>>]

\* the sweep with the scores added up
MergeOne_score_sum(m, h) ==
    IF m = <<>> \/ h[1] > m[Len(m)][2]
    THEN Append(m, h)
    ELSE LET last == m[Len(m)]
         IN  [m EXCEPT ![Len(m)] =
                 <<last[1], Max(last[2], h[2]), last[3] + h[3], last[4] \cup h[4], last[5]>>]

\* one iteration of the merge sweep: hit h against the regions so far.
\* list(h) copies the four fields of h, not the set: the new region names the
\* tags object of h, and |= changes that object in place.
MergeOne(m, h) ==
    IF m = <<>> \/ h[1] > m[Len(m)][2]
    THEN Append(m, h)
    ELSE LET last == m[Len(m)]
         IN  [m EXCEPT ![Len(m)] =
                 <<last[1], Max(last[2], h[2]), Max(last[3], h[3]), last[4] \cup h[4], last[5]>>]

\* the tuples of a that name the tags object of region row, with its content
Aliased(a, row) ==
    [k \in 1..Len(a) |->
        IF a[k][5] = row[5] THEN <<a[k][1], a[k][2], a[k][3], row[4], a[k][5]>>
        ELSE a[k]]

\* the merge as a function of the hit list: the sweep over sorted(a)
RECURSIVE Sweep(_, _)
Sweep(m, t) ==
    IF t = <<>> THEN m
    ELSE Sweep(MergeOne(m, Head(t)), Tail(t))

MergeAll(a) == Sweep(<<>>, sorted(a))

\* ctx of a region [a, b): the highlighted stripped sentences a .. b-1
Context(ss, a, b) == [k \in 1..(b - a) |-> HighlightTable[ss[a + k]]]

\* the entry put at the front of the label's list
AppendUnder_front(o, label, entry) ==
    IF label \in DOMAIN o
    THEN [o EXCEPT ![label] = <<entry>> \o o[label]]
    ELSE [l \in DOMAIN o \cup {label} |-> IF l = label THEN <<entry>> ELSE o[l]]

\* out[label].append(entry) on a defaultdict(list)
AppendUnder(o, label, entry) ==
    IF label \in DOMAIN o
    THEN [o EXCEPT ![label] = Append(o[label], entry)]
    ELSE [l \in DOMAIN o \cup {label} |-> IF l = label THEN <<entry>> ELSE o[l]]

\* ------------------------------------------------------------ analyze(text)
\* given records the hit list as it was when it was passed to sorted()
VARIABLES sents, pc, i, hits, todo, merged, r, out, given

vars == <<sents, pc, i, hits, todo, merged, r, out, given>>

EmptyOut == [l \in {} |-> <<>>]

Init ==
    /\ sents \in Documents
    /\ pc = "start"
    /\ i = 0
    /\ hits = <<>>
    /\ todo = <<>>
    /\ merged = <<>>
    /\ r = 0
    /\ out = EmptyOut
    /\ given = <<>>

\* if not sents: return {}
NoSentences ==
    /\ pc = "start"
    /\ sents = <<>>
    /\ pc' = "done"
    /\ UNCHANGED <<sents, i, hits, todo, merged, r, out, given>>

Begin ==
    /\ pc = "start"
    /\ sents # <<>>
    /\ pc' = "score"
    /\ UNCHANGED <<sents, i, hits, todo, merged, r, out, given>>

\* one iteration of the scoring loop, sentence i
ScoreSentence ==
    /\ pc = "score"
    /\ i < Len(sents)
    /\ LET sc == ScoreTable[sents[i + 1]]
       IN  hits' = IF KeepHit(sc)
                   THEN Append(hits, HitOf(i, Len(sents), sc))
                   ELSE hits
    /\ i' = i + 1
    /\ UNCHANGED <<sents, pc, todo, merged, r, out, given>>

\* the scoring loop ends; the sweep starts over sorted(hits)
SortHits ==
    /\ pc = "score"
    /\ i = Len(sents)
    /\ todo' = sorted(hits)
    /\ given' = hits
    /\ pc' = "merge"
    /\ UNCHANGED <<sents, i, hits, merged, r, out>>

\* one iteration of the merge sweep
MergeHit ==
    /\ pc = "merge"
    /\ todo # <<>>
    /\ merged' = MergeOne(merged, Head(todo))
    /\ todo' = Aliased(Tail(todo), merged'[Len(merged')])
    /\ hits' = Aliased(hits, merged'[Len(merged')])
    /\ UNCHANGED <<sents, pc, i, r, out, given>>

MergeDone ==
    /\ pc = "merge"
    /\ todo = <<>>
    /\ pc' = "render"
    /\ UNCHANGED <<sents, i, hits, todo, merged, r, out, given>>

\* one iteration of the output loop, region r
RenderRegion ==
    /\ pc = "render"
    /\ r < Len(merged)
    /\ LET m == merged[r + 1]
       IN  out' = AppendUnder(out, classify(m[4]),
                              <<m[3], Context(sents, m[1], m[2])>>)
    /\ r' = r + 1
    /\ UNCHANGED <<sents, pc, i, hits, todo, merged, given>>

\* return out
Return ==
    /\ pc = "render"
    /\ r = Len(merged)
    /\ pc' = "done"
    /\ UNCHANGED <<sents, i, hits, todo, merged, r, out, given>>

Next ==
    \/ NoSentences
    \/ Begin
    \/ ScoreSentence
    \/ SortHits
    \/ MergeHit
    \/ MergeDone
    \/ RenderRegion
    \/ Return

Spec == Init /\ [][Next]_vars

\* ------------------------------------------------------------ the merge alone
MaxHits == 3

\* windows within three sentences: one inside another, overlapping, touching,
\* apart, equal
HitWindows == { <<0, 1>>, <<0, 2>>, <<0, 3>>, <<1, 2>>, <<2, 3>> }

\* score and tags of a sentence: two pairs of equal score, one with tag sets
\* that do not include one another, one with a tag set inside the other
HitKinds ==
    { <<3, {"TABLE"}>>, <<3, {"CRITICAL"}>>,
      <<8, {"MEASUREMENT"}>>, <<8, {"MEASUREMENT", "NUMERIC_RANGE"}>> }

\* the hits: a window with a score and tags
HitSpace == {<<w[1], w[2], k[1], k[2]>> : w \in HitWindows, k \in HitKinds}

\* hit list a, each hit with a tags object of its own
WithObjects(a) == [k \in 1..Len(a) |-> Append(a[k], k - 1)]

\* the sort and the sweep started on a hit list
InitMerge ==
    /\ sents = <<>>
    /\ pc = "score"
    /\ i = 0
    /\ \E n \in 0..MaxHits : \E a \in [1..n -> HitSpace] : hits = WithObjects(a)
    /\ todo = <<>>
    /\ merged = <<>>
    /\ r = 0
    /\ out = EmptyOut
    /\ given = <<>>

NextMerge ==
    \/ SortHits
    \/ MergeHit
    \/ MergeDone

SpecMerge == InitMerge /\ [][NextMerge]_vars

\* ------------------------------------------------------------ properties
Merged == pc \in {"render", "done"}

\* the window of hit h intersects or touches the window of region m
Touches(h, m) == h[1] <= m[2] /\ m[1] <= h[2]

Absorbed(m) == {h \in Range(hits) : Touches(h, m)}

\* the tag set computed for the sentence of hit h
OwnTags(h) == ScoreTable[sents[h[5] + 1]].tags

\* the rules of the classification in priority order
Rules ==
    << <<{"CRITICAL", "NUMERIC_RANGE"}, "CONFIRMED CRITICAL RANGES">>,
       <<{"SAMPLE", "NUMERIC_RANGE"},   "USED / SAMPLE RANGES">>,
       <<{"SOLVENT"},                   "SOLVENT COMPOSITION">>,
       <<{"TABLE"},                     "TABLE / NUMERIC DATA">>,
       <<{},                            "OTHER RELEVANT INFORMATION">> >>

FirstRule(tags) ==
    CHOOSE k \in 1..Len(Rules) :
        /\ Rules[k][1] \subseteq tags
        /\ \A j \in 1..(k - 1) : ~(Rules[j][1] \subseteq tags)

ClassifyFollowsRules ==
    \A tags \in SUBSET AllTags :
        /\ classify(tags) \in Labels
        /\ classify(tags) = Rules[FirstRule(tags)][2]

RECURSIVE TotalLen(_, _)
TotalLen(o, ls) ==
    IF ls = {} THEN 0
    ELSE LET l == CHOOSE x \in ls : TRUE
         IN  Len(o[l]) + TotalLen(o, ls \ {l})

\* C1: classify returns, for every subset of the 8 tags, the label of the first
\* satisfied rule of the priority list, one of the 5 labels; and every region
\* rendered so far has its entry under the label of its tags, the output holding
\* one entry per region and no other key than a label.
C1_ClassifyTotal ==
    /\ ClassifyFollowsRules
    /\ DOMAIN out \subseteq Labels
    /\ Merged =>
         /\ TotalLen(out, DOMAIN out) = r
         /\ \A k \in 1..r :
               LET m == merged[k]
                   l == Rules[FirstRule(m[4])][2]
               IN  /\ l \in DOMAIN out
                   /\ <<m[3], Context(sents, m[1], m[2])>> \in Range(out[l])

C1_Witness ==
    /\ pc = "done"
    /\ \E k \in 1..Len(merged) :
          {"CRITICAL", "SAMPLE", "NUMERIC_RANGE", "TABLE"} \subseteq merged[k][4]
    /\ DOMAIN out = {"CONFIRMED CRITICAL RANGES"}

\* C2: after the merge sweep the regions are in strictly ascending start order
\* and each begins strictly after the end of the one before it (no overlap, no
\* touching); the hits [0,5), [3,8), [9,13) merge to [0,8) and [9,13).
C2_RegionsDisjoint ==
    Merged =>
        /\ \A k \in 1..(Len(merged) - 1) :
              /\ merged[k][1] < merged[k + 1][1]
              /\ merged[k + 1][1] > merged[k][2]
        /\ sents = ExampleDoc =>
              /\ [k \in 1..Len(hits) |-> <<hits[k][1], hits[k][2]>>]
                    = <<<<0, 5>>, <<3, 8>>, <<9, 13>>>>
              /\ [k \in 1..Len(merged) |-> <<merged[k][1], merged[k][2]>>]
                    = <<<<0, 8>>, <<9, 13>>>>

C2_Witness ==
    /\ pc = "done"
    /\ Len(merged) = 2
    /\ \E a \in Range(hits), b \in Range(hits) : b[1] = a[2]

\* C3: after merging, the tag set of every region is exactly the union of the tag
\* sets of the hits whose window intersects or touches the region's window.
C3_TagsAreUnion ==
    Merged =>
        /\ \A k \in 1..Len(merged) :
              merged[k][4] = UNION {OwnTags(h) : h \in Absorbed(merged[k])}
        /\ \A h \in Range(hits) :
              Cardinality({k \in 1..Len(merged) : Touches(h, merged[k])}) = 1

C3_Witness ==
    /\ pc = "done"
    /\ \E k \in 1..Len(merged) :
          /\ Cardinality(Absorbed(merged[k])) >= 2
          /\ \A h \in Absorbed(merged[k]) : OwnTags(h) # merged[k][4]
    /\ Len(merged) >= 2

\* the score and tags of a sentence text stated rule by rule
Expected(s) ==
    LET tl   == lower(s)
        cats == {c \in Range(VocabNames) : \E w \in VOCAB(c) : Contains(tl, w)}
        ms   == matcher(tokens(s))
        tab  == looks_like_table(strip(s))
    IN  [score |-> 3 * Cardinality(cats \ {"SOLVENT"})
                     + (IF "SOLVENT" \in cats THEN 2 ELSE 0)
                     + 4 * Cardinality(ms)
                     + (IF tab THEN 3 ELSE 0),
         tags  |-> cats \cup {m[1] : m \in ms} \cup (IF tab THEN {"TABLE"} ELSE {})]

ExpectedTable == [s \in Pool |-> Expected(s)]

\* a step of the scoring loop
ScoreStep == pc = "score" /\ i' = i + 1

\* the step made a Hit of the sentence
HitAdded == Len(hits') = Len(hits) + 1 /\ SubSeq(hits', 1, Len(hits)) = hits

C4_Step ==
    /\ ScoreStep =>
         LET e == ExpectedTable[sents[i + 1]]
         IN  IF e.score # 0
             THEN /\ HitAdded
                  /\ hits'[Len(hits')][3] = e.score
                  /\ hits'[Len(hits')][4] = e.tags
             ELSE hits' = hits
    /\ (pc' = "done" /\ sents = <<SentPore>>) =>
         /\ Len(hits) = 1
         /\ {"STATIONARY", "CRITICAL", "NUMERIC_RANGE", "MEASUREMENT"} \subseteq hits[1][4]
         /\ hits[1][3] = 14
         /\ DOMAIN out' = {"CONFIRMED CRITICAL RANGES"}
         /\ out'["CONFIRMED CRITICAL RANGES"][1][1] = 14

\* C4: scoring a sentence adds 3 for each of STATIONARY, CRITICAL, SAMPLE with a
\* keyword occurring in the lowercased text, 2 for SOLVENT, 4 for every pattern
\* match (the tag once), 3 if the table heuristic fires; a Hit is made iff the
\* sum is nonzero. 'The pore size was specified as 50-100 nm.' scores 14 with
\* STATIONARY, CRITICAL, NUMERIC_RANGE, MEASUREMENT under CONFIRMED CRITICAL RANGES.
C4_ScoreIsSum == [][C4_Step]_vars

C4_Witness ==
    /\ pc = "done"
    /\ sents = <<SentPore>>
    /\ Len(hits) = 1
    /\ hits[1][3] = 14

\* C5 as claimed: 'Samples were measured, ranging from 10 to 20.' is tagged
\* SAMPLE and NUMERIC_RANGE and reported under USED / SAMPLE RANGES.
C5_SamplesUsedRanges ==
    (pc = "done" /\ sents = <<SentSamples>>) =>
        /\ Len(hits) = 1
        /\ {"SAMPLE", "NUMERIC_RANGE"} \subseteq hits[1][4]
        /\ DOMAIN out = {"USED / SAMPLE RANGES"}

\* C5 amended: 'Samples were measured, ranging from 10 to 20.' is tagged SAMPLE
\* alone with score 3 ("ranging from 10 to 20" matches no range pattern) and its
\* single region is reported under OTHER RELEVANT INFORMATION.
C5_SamplesOther ==
    (pc = "done" /\ sents = <<SentSamples>>) =>
        /\ hits = << <<0, 1, 3, {"SAMPLE"}, 0>> >>
        /\ DOMAIN out = {"OTHER RELEVANT INFORMATION"}
        /\ Len(out["OTHER RELEVANT INFORMATION"]) = 1

C5_Witness ==
    /\ pc = "done"
    /\ sents = <<SentSamples>>
    /\ "OTHER RELEVANT INFORMATION" \in DOMAIN out

\* C6: the score of every region is the maximum of the scores of the hits it
\* absorbed: the score of one of them, and no smaller than any of them.
C6_ScoreIsMax ==
    Merged =>
        \A k \in 1..Len(merged) :
            /\ \E h \in Absorbed(merged[k]) : h[3] = merged[k][3]
            /\ \A h \in Absorbed(merged[k]) : h[3] <= merged[k][3]

C6_Witness ==
    /\ pc = "done"
    /\ \E k \in 1..Len(merged) :
          \E a \in Absorbed(merged[k]), b \in Absorbed(merged[k]) :
              a[3] < b[3] /\ merged[k][3] = b[3]

\* the entries of the first n regions that fall under label l, in region order
RECURSIVE EntriesUnder(_, _)
EntriesUnder(l, n) ==
    IF n = 0 THEN <<>>
    ELSE LET m   == merged[n]
             ctx == [k \in 1..(m[2] - m[1]) |-> HighlightTable[sents[m[1] + k]]]
         IN  IF classify(m[4]) = l
             THEN Append(EntriesUnder(l, n - 1), <<m[3], ctx>>)
             ELSE EntriesUnder(l, n - 1)

\* C7: under each label the entries are those of its regions in ascending order
\* of window_start, and each entry lists the highlighted sentences
\* window_start .. window_end-1 in index order, each once.
C7_OutputOrder ==
    Merged =>
        /\ \A k \in 1..(Len(merged) - 1) : merged[k][1] < merged[k + 1][1]
        /\ \A l \in Labels :
              IF l \in DOMAIN out THEN out[l] = EntriesUnder(l, r)
              ELSE EntriesUnder(l, r) = <<>>

C7_Witness ==
    /\ pc = "done"
    /\ \E l \in DOMAIN out : Len(out[l]) >= 2 /\ out[l][1] # out[l][2]

NoScoringSentence == \A k \in 1..Len(sents) : ExpectedTable[sents[k]].score = 0

\* C8: for a document with no sentence, and for one in which no sentence scores,
\* analyze runs to its return with no hit, no region and no label key: the
\* returned mapping is empty.
C8_EmptyOutput ==
    NoScoringSentence =>
        /\ hits = <<>>
        /\ merged = <<>>
        /\ out = EmptyOut
        /\ pc # "done" => ENABLED Next

C8_Witness ==
    /\ pc = "done"
    /\ Len(sents) >= 2
    /\ NoScoringSentence
    /\ out = EmptyOut

\* the step gave the sentence the tag TABLE
TableAdded == HitAdded /\ "TABLE" \in hits'[Len(hits')][4]

\* C9 as claimed: TABLE and +3 iff the raw text of the sentence contains a digit
\* and two consecutive spaces or a tab, also when these are at its start or end.
C9_TableIffRawText ==
    [][ScoreStep => (TableAdded <=> looks_like_table(sents[i + 1]))]_vars

\* the score of a sentence text without the table rule
BaseScore(s) ==
    LET tl   == lower(s)
        cats == {c \in Range(VocabNames) : \E w \in VOCAB(c) : Contains(tl, w)}
    IN  3 * Cardinality(cats \ {"SOLVENT"}) + (IF "SOLVENT" \in cats THEN 2 ELSE 0)
            + 4 * Cardinality(matcher(tokens(s)))

BaseTable == [s \in Pool |-> BaseScore(s)]

\* a digit, and two consecutive spaces or a tab, in the text without its leading
\* and trailing whitespace
StrippedTextIsTable(s) ==
    LET t == strip(s)
    IN  /\ \E k \in 1..Len(t) : t[k] \in Digits
        /\ \E k \in 1..Len(t) :
              t[k] = "\t" \/ (k < Len(t) /\ t[k] = " " /\ t[k + 1] = " ")

\* C9 amended: TABLE and +3 iff the text of the sentence with its leading and
\* trailing whitespace removed contains a digit and two consecutive spaces or a
\* tab; a tab or double space only at the start or end of the raw text does not
\* count.
C9_TableIffStrippedText ==
    [][ScoreStep =>
          /\ TableAdded <=> StrippedTextIsTable(sents[i + 1])
          /\ HitAdded =>
                hits'[Len(hits')][3] = BaseTable[sents[i + 1]]
                    + (IF StrippedTextIsTable(sents[i + 1]) THEN 3 ELSE 0)]_vars

C9_Witness ==
    /\ pc = "done"
    /\ Len(sents) = 2
    /\ sents[1] = SentLeadTab
    /\ sents[2] = SentDouble
    /\ Len(hits) = 1
    /\ hits[1][4] = {"TABLE"}

\* the sentences rendered so far
Rendered == {sents[j + 1] : j \in UNION {merged[k][1]..(merged[k][2] - 1) : k \in 1..r}}

RehighlightTable == [s \in Pool |-> highlight(Highlighted(s))]

\* the text has a keyword at word boundaries
HasKeyword(t) == \E k \in ALL_KEYWORDS : \E p \in 1..Len(t) : MatchAt(k, t, p)

HasKeywordTable == [s \in Pool |-> HasKeyword(strip(s))]

\* every marker character twice: [[ becomes [[[[ and ]] becomes ]]]]
RECURSIVE DoubleMarkers(_)
DoubleMarkers(t) ==
    IF t = <<>> THEN <<>>
    ELSE (IF Head(t) \in {"[", "]"} THEN <<Head(t), Head(t)>> ELSE <<Head(t)>>)
             \o DoubleMarkers(Tail(t))

DoubledTable == [s \in Pool |-> DoubleMarkers(Highlighted(s))]

\* C10 as claimed: highlighting a rendered (highlighted) sentence again leaves
\* it as it is.
C10_HighlightIdempotent ==
    \A s \in Rendered : RehighlightTable[s] = HighlightTable[s]

\* C10 amended: highlighting a highlighted sentence again leaves it as it is
\* only when the sentence has no keyword at word boundaries; otherwise every
\* marked keyword gets a second pair of markers, [[[[keyword]]]].
C10_RehighlightDoubles ==
    \A s \in Rendered :
        /\ RehighlightTable[s] = HighlightTable[s] <=> ~HasKeywordTable[s]
        /\ RehighlightTable[s] = DoubledTable[s]
        /\ HighlightTable[s] = strip(s) <=> ~HasKeywordTable[s]

C10_Witness ==
    /\ pc = "done"
    /\ \E s \in Rendered : HasKeywordTable[s] /\ RehighlightTable[s] # HighlightTable[s]
    /\ \E s \in Rendered : ~HasKeywordTable[s]

\* windows, scores and tag sets of a list of hits or regions
Values(a) == [k \in 1..Len(a) |-> <<a[k][1], a[k][2], a[k][3], a[k][4]>>]

\* the orders a list can be given in
Orders(a) ==
    { [k \in 1..Len(a) |-> a[p[k]]] :
        p \in {q \in [1..Len(a) -> 1..Len(a)] :
                 \A x \in 1..Len(a), y \in 1..Len(a) : q[x] = q[y] => x = y} }

\* C11: the regions the sort and sweep made of the given hit list are the ones it
\* makes of every permutation of that list: same windows, scores and tag sets in
\* the same order, also when hits share a window_start or a whole window.
C11_OrderIndependent ==
    Merged =>
        \A p \in Orders(given) : Values(MergeAll(p)) = Values(merged)

C11_Witness ==
    /\ pc = "render"
    /\ Len(given) = 3
    /\ Len(merged) = 2
    /\ given[1][1] > given[3][1]
    /\ \E a \in 1..3, b \in 1..3 :
          /\ given[a][1] = given[b][1] /\ given[a][2] = given[b][2]
          /\ given[a][3] = given[b][3] /\ given[a][4] # given[b][4]

\* C12: the sort and sweep run on the regions it produced, and on that list
\* concatenated with itself, gives back the same regions: windows, scores and
\* tag sets unchanged.
C12_MergeIdempotent ==
    Merged =>
        /\ Values(MergeAll(merged)) = Values(merged)
        /\ Values(MergeAll(merged \o merged)) = Values(merged)

C12_Witness ==
    /\ pc = "render"
    /\ Len(given) = 3
    /\ Len(merged) = 2
    /\ merged[1][4] = {"TABLE", "CRITICAL"}
    /\ merged[2][3] = 8
    /\ Len(MergeAll(merged \o merged)) = 2

\* C13: in a document of N sentences the Hit of every scoring sentence i has the
\* window [max(0, i-2), min(N, i+3)): 0 <= start <= i < end <= N, at most 5
\* sentences; every region has 0 <= start < end <= N, so a rendered region reads
\* sentences 0..N-1 only.
C13_WindowsInBounds ==
    LET N == Len(sents)
    IN  /\ \A j \in 0..(i - 1) :
              ScoreTable[sents[j + 1]].score # 0 <=>
                  Cardinality({k \in 1..Len(hits) : hits[k][5] = j}) = 1
        /\ \A k \in 1..Len(hits) :
              LET h == hits[k]
                  j == h[5]
              IN  /\ j \in 0..(i - 1)
                  /\ h[1] = Max(0, j - 2)
                  /\ h[2] = Min(N, j + 3)
                  /\ 0 <= h[1] /\ h[1] <= j /\ j < h[2] /\ h[2] <= N
                  /\ h[2] - h[1] <= 5
        /\ \A k \in 1..Len(merged) :
              /\ 0 <= merged[k][1] /\ merged[k][1] < merged[k][2] /\ merged[k][2] <= N
              /\ k <= r => merged[k][1]..(merged[k][2] - 1) \subseteq 0..(N - 1)

\* a window cut at the start, a window cut at the end and a whole window of 5
\* sentences, all rendered
C13_Witness ==
    /\ pc = "done"
    /\ r = Len(merged)
    /\ \E a \in 1..Len(hits), b \in 1..Len(hits), c \in 1..Len(hits) :
          /\ hits[a][5] < 2 /\ hits[a][1] = 0
          /\ hits[b][5] + 3 > Len(sents) /\ hits[b][2] = Len(sents)
          /\ hits[c][2] - hits[c][1] = 5 /\ hits[c][1] = hits[c][5] - 2

\* C14: the sweep leaves the hit list as the scoring loop made it: every Hit
\* keeps the window, the score and the tag set computed for its own sentence,
\* also after later Hits were merged into the region it started.
C14_HitsUnchanged ==
    \A k \in 1..Len(hits) :
        hits[k] = HitOf(hits[k][5], Len(sents), ScoreTable[sents[hits[k][5] + 1]])

====
